---- MODULE Spec2Model ----
(***************************************************************************)
(* Model of the <toggle-input> custom element (src/toggle-input.js).       *)
(*                                                                         *)
(* The state is the element's attributes, the hidden native checkbox in    *)
(* its shadow root, the ElementInternals it attached (when the platform    *)
(* offers them), the fallback hidden input, its private fields, its place  *)
(* in the document and the listeners it has registered.  Every handler is  *)
(* an operator from element state to element state, written in the order   *)
(* of the statements of the source; an action applies one handler.         *)
(***************************************************************************)
EXTENDS Integers, Sequences, FiniteSets, TLC

\* ---------------------------------------------------------------- bounds
NumForms == 1

Forms == 1..NumForms
NoForm == 0

\* ------------------------------------------------------- string universe
Null == "<null>"
NameStrings == {"", "n"}
ValueStrings == {"v"}
Messages == {"", "bad"}
Keys == {" ", "Spacebar", "Enter", "a"}
DefaultMessage == "This checkbox cannot be left unchecked."

observedAttributes ==
    {"checked", "disabled", "name", "value", "aria-label", "required",
     "indeterminate", "autofocus", "tabindex"}

AttrNames ==
    observedAttributes \cup
    {"role", "aria-checked", "aria-disabled", "aria-required", "aria-invalid"}

UpgradeProps == {"checked", "disabled", "name", "value", "indeterminate"}

VARIABLES
    attr,            \* host attributes: name -> string, or Null when absent
    native,          \* this._native: the checkbox in the shadow root
    classList,       \* this._button.classList
    internals,       \* this._internals: ElementInternals, or absent
    hiddenInput,     \* this._hiddenInput and the form it was appended to
    fields,          \* _customValidity, _defaultChecked, _defaultIndeterminate
    dom,             \* isConnected, closest form, registered listeners, and how
                     \* many hidden inputs of this element each form contains
    own,             \* instance properties set before the element was upgraded
    events,          \* events that reached the host during the last operation
    lastOp           \* the last operation (with the result of checkValidity)

vars == <<attr, native, classList, internals, hiddenInput, fields, dom, own,
          events, lastOp>>

\* The element as one record, so that handlers compose.
This ==
    [attr |-> attr, native |-> native, classList |-> classList,
     internals |-> internals, hiddenInput |-> hiddenInput, fields |-> fields,
     dom |-> dom, own |-> own, events |-> events]

NoHiddenInput == [exists |-> FALSE, name |-> Null, value |-> Null, parent |-> NoForm]

NoValidity == [valueMissing |-> FALSE, customError |-> FALSE]

\* ------------------------------------------------------------- accessors
hasAttribute(s, name) == s.attr[name] # Null

getAttribute(s, name) == s.attr[name]

Truthy(str) == str # Null /\ str # ""

get_checked(s) == s.native.checked

get_disabled(s) == s.native.disabled

get_name(s) == getAttribute(s, "name")

get_value(s) == IF getAttribute(s, "value") = Null THEN "on" ELSE getAttribute(s, "value")

get_required(s) == hasAttribute(s, "required")

get_indeterminate(s) == s.native.indeterminate

dispatchEvent(s, type, target) ==
    [s EXCEPT !.events = Append(@, [type |-> type, target |-> target])]

\* ---------------------------------------------------------------- _render
\* _render with line 275 deciding on checked alone.
_render_NoMixed(s) ==
    LET checked == s.native.checked
        disabled == s.native.disabled
        required == get_required(s)
        indeterminate == s.native.indeterminate
        cl1 == IF indeterminate THEN (s.classList \cup {"indeterminate"}) \ {"on"}
               ELSE IF checked THEN (s.classList \cup {"on"}) \ {"indeterminate"}
               ELSE s.classList \ {"on", "indeterminate"}
        cl2 == IF disabled THEN cl1 \cup {"disabled"} ELSE cl1 \ {"disabled"}
    IN  [s EXCEPT
            !.attr["aria-checked"] = IF checked THEN "true" ELSE "false",
            !.attr["aria-disabled"] = IF disabled THEN "true" ELSE Null,
            !.attr["aria-required"] = IF required THEN "true" ELSE Null,
            !.classList = cl2]

_render(s) ==
    LET checked == s.native.checked
        disabled == s.native.disabled
        required == get_required(s)
        indeterminate == s.native.indeterminate
        cl1 == IF indeterminate THEN (s.classList \cup {"indeterminate"}) \ {"on"}
               ELSE IF checked THEN (s.classList \cup {"on"}) \ {"indeterminate"}
               ELSE s.classList \ {"on", "indeterminate"}
        cl2 == IF disabled THEN cl1 \cup {"disabled"} ELSE cl1 \ {"disabled"}
    IN  [s EXCEPT
            !.attr["aria-checked"] =
                IF indeterminate THEN "mixed" ELSE IF checked THEN "true" ELSE "false",
            !.attr["aria-disabled"] = IF disabled THEN "true" ELSE Null,
            !.attr["aria-required"] = IF required THEN "true" ELSE Null,
            !.classList = cl2]

\* ------------------------------------------------- fallback hidden input
\* Lines 317-323 without line 321: an unchecked element keeps the name.
WriteHiddenInput_KeepingName(s) ==
    IF s.native.checked
    THEN [s EXCEPT !.hiddenInput.name = IF Truthy(get_name(s)) THEN get_name(s) ELSE "",
                   !.hiddenInput.value = get_value(s)]
    ELSE [s EXCEPT !.hiddenInput.value = Null]

\* Lines 317-323: the body of _updateHiddenInput once this._hiddenInput exists.
WriteHiddenInput(s) ==
    IF s.native.checked
    THEN [s EXCEPT !.hiddenInput.name = IF Truthy(get_name(s)) THEN get_name(s) ELSE "",
                   !.hiddenInput.value = get_value(s)]
    ELSE [s EXCEPT !.hiddenInput.name = Null,
                   !.hiddenInput.value = Null]

_ensureHiddenInput(s) ==
    IF ~s.dom.isConnected THEN s
    ELSE IF s.dom.form = NoForm /\ s.hiddenInput.exists
    THEN [s EXCEPT !.dom.formChildren[s.hiddenInput.parent] = @ - 1,
                   !.hiddenInput = NoHiddenInput]
    ELSE IF ~s.internals.present /\ s.dom.form # NoForm
            /\ ~s.hiddenInput.exists /\ Truthy(get_name(s))
    THEN WriteHiddenInput(
            [s EXCEPT !.hiddenInput =
                        [exists |-> TRUE, name |-> get_name(s), value |-> Null,
                         parent |-> s.dom.form],
                      !.dom.formChildren[s.dom.form] = @ + 1])
    ELSE s

\* Lines 314-323: after the call of _ensureHiddenInput in _updateHiddenInput.
WriteIfEnsured(s) ==
    IF ~s.hiddenInput.exists THEN s ELSE WriteHiddenInput(s)

_updateHiddenInput(s) ==
    IF ~s.hiddenInput.exists
    THEN WriteIfEnsured(_ensureHiddenInput(s))
    ELSE WriteHiddenInput(s)

\* ----------------------------------------------------- form value, validity
setFormValue(s, v) == [s EXCEPT !.internals.formValue = v]

\* _updateFormValue submitting the default 'on' instead of this.value.
_updateFormValue_IgnoringValue(s) ==
    IF s.internals.present
    THEN IF s.native.checked THEN setFormValue(s, "on")
         ELSE setFormValue(s, Null)
    ELSE _updateHiddenInput(s)

_updateFormValue(s) ==
    IF s.internals.present
    THEN IF s.native.checked THEN setFormValue(s, get_value(s))
         ELSE setFormValue(s, Null)
    ELSE _updateHiddenInput(s)

setValidity(s, flags, message) ==
    [s EXCEPT !.internals.validity = flags,
              !.internals.validationMessage = message]

\* _updateValidity without line 340 (and the aria-invalid of line 347 without
\* the custom message).
_updateValidity_NoCustomError(s) ==
    LET isValueMissing == get_required(s) /\ ~s.native.checked
    IN  IF s.internals.present
        THEN IF isValueMissing
             THEN setValidity(s, [valueMissing |-> TRUE, customError |-> FALSE],
                              DefaultMessage)
             ELSE setValidity(s, NoValidity, "")
        ELSE [s EXCEPT !.attr["aria-invalid"] =
                 IF isValueMissing THEN "true" ELSE Null]

_updateValidity(s) ==
    LET isValueMissing == get_required(s) /\ ~s.native.checked
        hasCustom == s.fields.customValidity # ""
        validity == [valueMissing |-> isValueMissing, customError |-> hasCustom]
    IN  IF s.internals.present
        THEN IF isValueMissing \/ hasCustom
             THEN setValidity(s, validity,
                     IF hasCustom THEN s.fields.customValidity ELSE DefaultMessage)
             ELSE setValidity(s, NoValidity, "")
        ELSE [s EXCEPT !.attr["aria-invalid"] =
                 IF isValueMissing \/ hasCustom THEN "true" ELSE Null]

\* ------------------------------------------------------------ attributes
\* Lines 164-168: the attribute is copied to the native checkbox.
ReflectToNative(s, name) ==
    CASE name = "checked" ->
            [s EXCEPT !.native.checked = hasAttribute(s, "checked")]
      [] name = "disabled" ->
            [s EXCEPT !.native.disabled = hasAttribute(s, "disabled")]
      [] name = "name" ->
            [s EXCEPT !.native.name =
                IF Truthy(getAttribute(s, "name")) THEN getAttribute(s, "name") ELSE ""]
      [] name = "value" ->
            [s EXCEPT !.native.value = get_value(s)]
      [] name = "indeterminate" ->
            [s EXCEPT !.native.indeterminate = hasAttribute(s, "indeterminate")]
      [] OTHER -> s

\* Lines 172-175.
UpdateFormOnChange(s, name) ==
    IF name \in {"name", "value", "checked", "indeterminate"}
    THEN _updateFormValue(_updateHiddenInput(s))
    ELSE s

\* Lines 176-178.
UpdateValidityOnChange(s, name) ==
    IF name \in {"required", "checked", "aria-label"}
    THEN _updateValidity(s)
    ELSE s

\* focus() on a change of 'autofocus' (lines 179-181) changes no modelled state.
attributeChangedCallback(s, name, oldVal, newVal) ==
    IF oldVal = newVal THEN s
    ELSE UpdateValidityOnChange(
            UpdateFormOnChange(_render(ReflectToNative(s, name)), name), name)

\* Element.setAttribute: the platform calls attributeChangedCallback for every
\* observed attribute, also when the new value equals the old one.
setAttribute(s, name, val) ==
    LET s1 == [s EXCEPT !.attr[name] = val]
    IN  IF name \in observedAttributes
        THEN attributeChangedCallback(s1, name, s.attr[name], val)
        ELSE s1

\* Element.removeAttribute: nothing happens when the attribute is absent.
removeAttribute(s, name) ==
    IF s.attr[name] = Null THEN s
    ELSE LET s1 == [s EXCEPT !.attr[name] = Null]
         IN  IF name \in observedAttributes
             THEN attributeChangedCallback(s1, name, s.attr[name], Null)
             ELSE s1

\* ------------------------------------------------------- property setters
set_checked(s, val) ==
    IF val THEN setAttribute(s, "checked", "") ELSE removeAttribute(s, "checked")

set_disabled(s, val) ==
    IF val THEN setAttribute(s, "disabled", "") ELSE removeAttribute(s, "disabled")

set_name(s, v) ==
    IF v = Null THEN removeAttribute(s, "name") ELSE setAttribute(s, "name", v)

set_value(s, v) ==
    IF v = Null THEN removeAttribute(s, "value") ELSE setAttribute(s, "value", v)

set_required(s, val) ==
    IF val THEN setAttribute(s, "required", "") ELSE removeAttribute(s, "required")

set_indeterminate(s, val) ==
    IF val THEN setAttribute(s, "indeterminate", "") ELSE removeAttribute(s, "indeterminate")

\* own[prop] is {} when the instance has no own property prop, {v} when it
\* has one with value v (a boolean is written "true" or "false").
OwnValue(s, prop) == CHOOSE v \in s.own[prop] : TRUE

_upgradeProperty(s, prop) ==
    IF s.own[prop] = {} THEN s
    ELSE LET value == OwnValue(s, prop)
             s1 == [s EXCEPT !.own[prop] = {}]
         IN  CASE prop = "checked" -> set_checked(s1, value = "true")
               [] prop = "disabled" -> set_disabled(s1, value = "true")
               [] prop = "name" -> set_name(s1, value)
               [] prop = "value" -> set_value(s1, value)
               [] prop = "indeterminate" -> set_indeterminate(s1, value = "true")

\* ------------------------------------------------- native checkbox events
\* Lines 227 and 239.
DropIndeterminateAttribute(s) ==
    IF s.native.indeterminate THEN removeAttribute(s, "indeterminate") ELSE s

\* Lines 228, 240 and 262.
SyncCheckedAttribute(s) ==
    IF s.native.checked THEN setAttribute(s, "checked", "")
    ELSE removeAttribute(s, "checked")

\* Lines 230-233, 242-245, 253-256 and 263-266.
Refresh(s) ==
    _render(_updateValidity(_updateFormValue(_updateHiddenInput(s))))

_onNativeInput(s) ==
    dispatchEvent(Refresh(SyncCheckedAttribute(DropIndeterminateAttribute(s))),
                  "input", "host")

_onNativeChange(s) ==
    dispatchEvent(Refresh(SyncCheckedAttribute(DropIndeterminateAttribute(s))),
                  "change", "host")

\* HTMLElement.click() on the checkbox this._native, as the platform runs it:
\* nothing on a disabled control; otherwise the checkedness is inverted and
\* the indeterminate flag cleared before the click event is dispatched, and,
\* the checkbox being connected, 'input' (bubbles, composed) and then
\* 'change' (bubbles, not composed) are fired at it.  The listeners of lines
\* 121-122 run at the target; a composed event then crosses the shadow
\* boundary and reaches the host, retargeted.
PreActivation(s) ==
    dispatchEvent([s EXCEPT !.native.checked = ~s.native.checked,
                            !.native.indeterminate = FALSE],
                  "click", "native")

native_click(s) ==
    IF s.native.disabled THEN s
    ELSE
    IF ~s.dom.isConnected THEN PreActivation(s)
    ELSE _onNativeChange(
            dispatchEvent(_onNativeInput(PreActivation(s)), "input", "native"))

\* ------------------------------------------------------------ interaction
\* _onClick without the guard of line 211.
_onClick_NoDisabledGuard(s) ==
    dispatchEvent(native_click(s), "click", "host")

_onClick(s) ==
    IF get_disabled(s) THEN s
    ELSE dispatchEvent(native_click(s), "click", "host")

_onKeyDown(s, key) ==
    IF get_disabled(s) THEN s
    ELSE IF key \in {" ", "Spacebar", "Enter"} THEN native_click(s)
    ELSE s

\* Line 251 without its else branch: a reset never unchecks.
RestoreDefaultChecked_OnlySet(s) ==
    IF s.fields.defaultChecked THEN setAttribute(s, "checked", "") ELSE s

\* Line 251.
RestoreDefaultChecked(s) ==
    IF s.fields.defaultChecked THEN setAttribute(s, "checked", "")
    ELSE removeAttribute(s, "checked")

\* Line 252.
RestoreDefaultIndeterminate(s) ==
    IF s.fields.defaultIndeterminate THEN setAttribute(s, "indeterminate", "")
    ELSE removeAttribute(s, "indeterminate")

\* _onFormReset ending with a dispatch of 'change', as _onNativeChange does.
_onFormReset_Dispatching(s) ==
    dispatchEvent(Refresh(RestoreDefaultIndeterminate(RestoreDefaultChecked(s))),
                  "change", "host")

_onFormReset(s) ==
    Refresh(RestoreDefaultIndeterminate(RestoreDefaultChecked(s)))

\* Lines 260-261.
FlipNative(s) ==
    [s EXCEPT !.native.checked = ~s.native.checked,
              !.native.indeterminate = FALSE]

\* toggle() without line 262: the attribute is not brought in line.
toggle_NoAttributeSync(s) ==
    Refresh(FlipNative(s))

\* toggle() returning at once on a disabled element, as _onClick does.
toggle_RespectingDisabled(s) ==
    IF get_disabled(s) THEN s
    ELSE Refresh(SyncCheckedAttribute(FlipNative(s)))

toggle(s) ==
    Refresh(SyncCheckedAttribute(FlipNative(s)))

\* --------------------------------------------------------------- validity
\* The value checkValidity() returns, after its call of _updateValidity.
checkValidityResult(s) ==
    IF s.internals.present
    THEN ~s.internals.validity.valueMissing /\ ~s.internals.validity.customError
    ELSE ~(get_required(s) /\ ~s.native.checked) /\ s.fields.customValidity = ""

checkValidity(s) == _updateValidity(s)

setCustomValidity(s, message) ==
    LET s1 == [s EXCEPT !.fields.customValidity = IF Truthy(message) THEN message ELSE ""]
    IN  IF s1.internals.present
        THEN IF s1.fields.customValidity # ""
             THEN setValidity(s1, [valueMissing |-> FALSE, customError |-> TRUE],
                              s1.fields.customValidity)
             ELSE _updateValidity(s1)
        ELSE _updateValidity(s1)

\* ---------------------------------------------------- lifecycle callbacks
\* Lines 126-127.
EnsureRole(s) ==
    IF ~hasAttribute(s, "role") THEN setAttribute(s, "role", "checkbox") ELSE s

EnsureTabindex(s) ==
    IF ~hasAttribute(s, "tabindex") THEN setAttribute(s, "tabindex", "0") ELSE s

\* Lines 129-130.
RecordDefaults(s) ==
    [s EXCEPT !.fields.defaultChecked = hasAttribute(s, "checked"),
              !.fields.defaultIndeterminate = hasAttribute(s, "indeterminate")]

\* Lines 132-136.
UpgradeProperties(s) ==
    _upgradeProperty(
        _upgradeProperty(
            _upgradeProperty(
                _upgradeProperty(
                    _upgradeProperty(s, "checked"),
                    "disabled"),
                "name"),
            "value"),
        "indeterminate")

\* Lines 139-140.
AddListeners(s) ==
    [s EXCEPT !.dom.clickListener = TRUE, !.dom.keydownListener = TRUE]

\* Lines 146-147.
ListenForReset(s) ==
    IF s.dom.form # NoForm
    THEN [s EXCEPT !.dom.resetListeners = @ \cup {s.dom.form}]
    ELSE s

\* focus() on 'autofocus' (lines 149-151) changes no modelled state.
connectedCallback(s) ==
    ListenForReset(
        _ensureHiddenInput(
            _updateValidity(
                _updateFormValue(
                    AddListeners(
                        _render(
                            UpgradeProperties(
                                RecordDefaults(
                                    EnsureTabindex(
                                        EnsureRole(s))))))))))

disconnectedCallback(s) ==
    LET s1 == [s EXCEPT !.dom.clickListener = FALSE,
                        !.dom.keydownListener = FALSE]
    IN  IF s1.dom.form # NoForm
        THEN [s1 EXCEPT !.dom.resetListeners = @ \ {s1.dom.form}]
        ELSE s1

\* ---------------------------------------------------------- initial state
\* Values an instance property can hold from before the upgrade.
OwnOptions(prop) ==
    CASE prop = "checked" -> {{}, {"true"}, {"false"}}
      [] prop = "indeterminate" -> {{}, {"true"}}
      [] prop = "disabled" -> {{}, {"true"}}
      [] prop = "name" -> {{}, {"n"}}
      [] prop = "value" -> {{}, {"v"}}

\* The state the constructor leaves: no attribute has been reported yet, the
\* checkbox is a fresh <input type=checkbox>, attachInternals() was called
\* when the platform has it (its submission value starts as null).
Init ==
    /\ attr = [a \in AttrNames |-> Null]
    /\ native = [checked |-> FALSE, disabled |-> FALSE, indeterminate |-> FALSE,
                 name |-> "", value |-> "on"]
    /\ classList = {}
    /\ \E present \in BOOLEAN :
         internals = [present |-> present, formValue |-> Null,
                      validity |-> NoValidity, validationMessage |-> ""]
    /\ hiddenInput = NoHiddenInput
    /\ fields = [customValidity |-> "", defaultChecked |-> FALSE,
                 defaultIndeterminate |-> FALSE]
    /\ dom = [isConnected |-> FALSE, form |-> NoForm, clickListener |-> FALSE,
              keydownListener |-> FALSE, resetListeners |-> {},
              formChildren |-> [f \in Forms |-> 0]]
    /\ own \in {o \in [UpgradeProps -> {{}, {"true"}, {"false"}, {"n"}, {"v"}}] :
                  /\ \A p \in UpgradeProps : o[p] \in OwnOptions(p)
                  /\ Cardinality({p \in UpgradeProps : o[p] # {}}) <= 1}
    /\ events = <<>>
    /\ lastOp = "constructor"

\* ----------------------------------------------------------------- actions
Become(s) ==
    /\ attr' = s.attr
    /\ native' = s.native
    /\ classList' = s.classList
    /\ internals' = s.internals
    /\ hiddenInput' = s.hiddenInput
    /\ fields' = s.fields
    /\ dom' = s.dom
    /\ own' = s.own
    /\ events' = s.events

\* The element at the start of an operation: nothing has reached the host yet.
Start == [This EXCEPT !.events = <<>>]

\* Assigning a property: the setters of lines 185-200 are the element's
\* setAttribute / removeAttribute calls, so these actions are also what a
\* page does when it sets or removes the attribute itself.
AssignChecked ==
    \E val \in BOOLEAN :
        /\ own["checked"] = {}
        /\ Become(set_checked(Start, val))
        /\ lastOp' = "assign"

AssignDisabled ==
    \E val \in BOOLEAN :
        /\ own["disabled"] = {}
        /\ Become(set_disabled(Start, val))
        /\ lastOp' = "assign"

AssignName ==
    \E v \in NameStrings \cup {Null} :
        /\ own["name"] = {}
        /\ Become(set_name(Start, v))
        /\ lastOp' = "assign"

AssignValue ==
    \E v \in ValueStrings \cup {Null} :
        /\ own["value"] = {}
        /\ Become(set_value(Start, v))
        /\ lastOp' = "assign"

AssignRequired ==
    \E val \in BOOLEAN :
        /\ Become(set_required(Start, val))
        /\ lastOp' = "assign"

AssignIndeterminate ==
    \E val \in BOOLEAN :
        /\ own["indeterminate"] = {}
        /\ Become(set_indeterminate(Start, val))
        /\ lastOp' = "assign"

Toggle ==
    /\ Become(toggle(Start))
    /\ lastOp' = "toggle"

\* A click on the control reaches _onClick while the listener of line 139 is
\* registered.
Click ==
    /\ dom.clickListener
    /\ Become(_onClick(Start))
    /\ lastOp' = "click"

KeyDown ==
    \E key \in Keys :
        /\ dom.keydownListener
        /\ Become(_onKeyDown(Start, key))
        /\ lastOp' = "keydown"

\* A 'reset' event on form f runs _onFormReset when the element listens on f.
ResetOn(f) ==
    /\ Become(IF f \in dom.resetListeners THEN _onFormReset(Start) ELSE Start)
    /\ lastOp' = "reset"

FormReset ==
    \E f \in Forms : ResetOn(f)

CheckValidity ==
    LET s == checkValidity(Start)
    IN  /\ Become(s)
        /\ lastOp' = IF checkValidityResult(s) THEN "checkValidity:true"
                      ELSE "checkValidity:false"

SetCustomValidity ==
    \E message \in Messages \cup {Null} :
        /\ Become(setCustomValidity(Start, message))
        /\ lastOp' = "setCustomValidity"

\* The element is inserted into the document, inside form f or outside any.
Insert ==
    \E f \in Forms \cup {NoForm} :
        /\ ~dom.isConnected
        /\ Become(connectedCallback([Start EXCEPT !.dom.isConnected = TRUE,
                                                  !.dom.form = f]))
        /\ lastOp' = "insert"

\* The element itself is removed from the document: it has no ancestor left
\* when disconnectedCallback runs.
Remove ==
    /\ dom.isConnected
    /\ Become(disconnectedCallback([Start EXCEPT !.dom.isConnected = FALSE,
                                                 !.dom.form = NoForm]))
    /\ lastOp' = "remove"

\* The connected element is moved to another place of the document: both
\* callbacks run after the move, at the new place.
Move ==
    \E f \in Forms \cup {NoForm} :
        /\ dom.isConnected
        /\ f # dom.form
        /\ Become(connectedCallback(disconnectedCallback(
                      [Start EXCEPT !.dom.form = f])))
        /\ lastOp' = "move"

Next ==
    \/ AssignChecked
    \/ AssignDisabled
    \/ AssignName
    \/ AssignValue
    \/ AssignRequired
    \/ AssignIndeterminate
    \/ Toggle
    \/ Click
    \/ KeyDown
    \/ FormReset
    \/ CheckValidity
    \/ SetCustomValidity
    \/ Insert
    \/ Remove
    \/ Move

Spec == Init /\ [][Next]_vars

\* ======================================================================
\* Properties
\* ======================================================================
EventIndices(type) == {i \in 1..Len(events) : events[i].type = type}

HasEvent(type) == EventIndices(type) # {}

UserOps == {"click", "keydown"}

\* C1: in every reachable state the checked property (the checkedness of the
\* hidden native checkbox) is true exactly when the host has the 'checked'
\* attribute.
C1_CheckedMirrorsAttribute ==
    get_checked(This) = hasAttribute(This, "checked")

C1_Witness ==
    /\ lastOp = "toggle"
    /\ get_checked(This)
    /\ hasAttribute(This, "checked")

\* C2: in every reachable state the indeterminate property is true exactly
\* when the host has the 'indeterminate' attribute (so that toggle() or a user
\* activation on an indeterminate element leaves the attribute absent, and
\* assigning indeterminate = true makes the getter return true).
C2_IndeterminateMirrorsAttribute ==
    get_indeterminate(This) = hasAttribute(This, "indeterminate")

\* C3: an 'input' or 'change' event reaches the host only during a user
\* interaction (a click or a keydown); no other operation dispatches one.
C3_EventsOnlyOnUserInteraction ==
    (HasEvent("input") \/ HasEvent("change")) => lastOp \in UserOps

C3_Witness ==
    /\ lastOp = "click"
    /\ HasEvent("input")
    /\ HasEvent("change")

\* C4: with ElementInternals, the form value last given to setFormValue is
\* the element's value (the 'value' attribute, 'on' when absent) when the
\* element is checked, and null when it is unchecked.
C4_FormValueMirrorsChecked ==
    internals.present =>
        internals.formValue = IF get_checked(This) THEN get_value(This) ELSE Null

C4_Witness ==
    /\ internals.present
    /\ get_checked(This)
    /\ getAttribute(This, "value") = "v"
    /\ internals.formValue = "v"
    /\ lastOp = "assign"

\* C5: in fallback mode the element's forms hold at most one hidden input of
\* the element, the one this._hiddenInput refers to, and its content mirrors
\* the element: name (or the empty string) and value when checked, neither a
\* name nor a value when unchecked.
HiddenInputsIn(fs) ==
    LET RECURSIVE Sum(_)
        Sum(S) == IF S = {} THEN 0
                  ELSE LET f == CHOOSE x \in S : TRUE
                       IN  dom.formChildren[f] + Sum(S \ {f})
    IN  Sum(fs)

C5_HiddenInputMirrorsElement ==
    ~internals.present =>
        /\ HiddenInputsIn(Forms) = IF hiddenInput.exists THEN 1 ELSE 0
        /\ hiddenInput.exists =>
            /\ dom.formChildren[hiddenInput.parent] = 1
            /\ IF get_checked(This)
               THEN /\ hiddenInput.name =
                          IF get_name(This) = Null THEN "" ELSE get_name(This)
                    /\ hiddenInput.value = get_value(This)
               ELSE /\ hiddenInput.name = Null
                    /\ hiddenInput.value = Null

C5_Witness ==
    /\ ~internals.present
    /\ hiddenInput.exists
    /\ get_checked(This)
    /\ hiddenInput.name = "n"
    /\ hiddenInput.value = "v"

\* C6: in fallback mode a form contains a hidden input of the element only
\* while the element is connected inside that form, and the element's
\* current form contains one whenever the element has a non-empty name.
C6_HiddenInputOnlyInCurrentForm ==
    ~internals.present =>
        /\ \A f \in Forms :
             dom.formChildren[f] > 0 => (dom.isConnected /\ dom.form = f)
        /\ (dom.isConnected /\ dom.form # NoForm /\ Truthy(get_name(This)))
              => dom.formChildren[dom.form] > 0

DisabledMirrorsAttribute ==
    get_disabled(This) = hasAttribute(This, "disabled")

\* C7: the disabled property equals the presence of the 'disabled' attribute
\* in every reachable state, and while the attribute is present a click or a
\* keydown changes neither the checked or indeterminate state, nor the
\* 'checked' or 'indeterminate' attribute, nor the form value, the hidden
\* input or the validity, and no event reaches the host.
C7_DisabledIgnoresActivation ==
    /\ []DisabledMirrorsAttribute
    /\ [][(hasAttribute(This, "disabled") /\ lastOp' \in UserOps) =>
            /\ native' = native
            /\ attr' = attr
            /\ internals' = internals
            /\ hiddenInput' = hiddenInput
            /\ events' = <<>>]_vars

C7_Witness ==
    /\ lastOp = "click"
    /\ hasAttribute(This, "disabled")
    /\ get_disabled(This)
    /\ events = <<>>

\* C8: a user activation of an enabled element results in exactly one 'input'
\* event followed by exactly one 'change' event reaching the host.
C8_OneInputThenOneChange ==
    (lastOp \in UserOps /\ events # <<>>) =>
        /\ Cardinality(EventIndices("input")) = 1
        /\ Cardinality(EventIndices("change")) = 1
        /\ \A i \in EventIndices("input") : \A j \in EventIndices("change") : i < j

\* C9: checkValidity() returns false exactly when the element is required and
\* unchecked or the custom validity message is non-empty, in both modes; and
\* setCustomValidity('') leaves no custom error.
C9_CheckValidity ==
    /\ lastOp \in {"checkValidity:true", "checkValidity:false"} =>
         ((lastOp = "checkValidity:false") <=>
             \/ (get_required(This) /\ ~get_checked(This))
             \/ fields.customValidity # "")
    /\ (lastOp = "setCustomValidity" /\ fields.customValidity = "" /\ internals.present)
         => ~internals.validity.customError

C9_Witness ==
    /\ lastOp = "checkValidity:false"
    /\ fields.customValidity = "bad"
    /\ ~get_required(This)

\* C10: with ElementInternals, the flags last given to setValidity are
\* valueMissing exactly when the element is required and unchecked, and
\* customError exactly when the custom validity message is non-empty.
C10_ValidityFlags ==
    internals.present =>
        /\ internals.validity.valueMissing = (get_required(This) /\ ~get_checked(This))
        /\ internals.validity.customError = (fields.customValidity # "")

\* A 'reset' event fires on a form the element listens on.
HandledReset ==
    /\ lastOp' = "reset"
    /\ \E f \in Forms : f \in dom.resetListeners /\ ResetOn(f)

ConnectOps == {"insert", "move"}

\* C11: connectedCallback records the presence of the 'checked' attribute, no
\* other operation changes the record, and a 'reset' event on a form the
\* element listens on makes the checked property and the 'checked' attribute
\* equal to it, brings the form value, the hidden input and the validity in
\* line with that state, and lets no event reach the host.
C11_ResetRestoresChecked ==
    /\ [][lastOp' \in ConnectOps =>
            fields'.defaultChecked = hasAttribute(This, "checked")]_vars
    /\ [][lastOp' \notin ConnectOps =>
            fields'.defaultChecked = fields.defaultChecked]_vars
    /\ [][HandledReset =>
            /\ native'.checked = fields.defaultChecked
            /\ (attr'["checked"] # Null) = fields.defaultChecked
            /\ internals'.present =>
                 /\ internals'.formValue =
                      IF fields.defaultChecked
                      THEN (IF attr'["value"] = Null THEN "on" ELSE attr'["value"])
                      ELSE Null
                 /\ internals'.validity.valueMissing =
                      (attr'["required"] # Null /\ ~fields.defaultChecked)
                 /\ internals'.validity.customError = (fields.customValidity # "")
            /\ (~internals'.present /\ hiddenInput'.exists) =>
                 IF fields.defaultChecked
                 THEN /\ hiddenInput'.name =
                            IF attr'["name"] = Null THEN "" ELSE attr'["name"]
                      /\ hiddenInput'.value =
                            IF attr'["value"] = Null THEN "on" ELSE attr'["value"]
                 ELSE /\ hiddenInput'.name = Null
                      /\ hiddenInput'.value = Null
            /\ (~internals'.present) =>
                 (attr'["aria-invalid"] # Null) =
                     ((attr'["required"] # Null /\ ~fields.defaultChecked)
                      \/ fields.customValidity # "")
            /\ events' = <<>>]_vars

\* A reset on a listened form was the last operation; the element had been
\* connected checked and required, and is checked.
C11_Witness ==
    /\ lastOp = "reset"
    /\ dom.resetListeners = Forms
    /\ fields.defaultChecked
    /\ get_checked(This)
    /\ hasAttribute(This, "checked")
    /\ hasAttribute(This, "required")

\* C12: after a 'reset' event on a form the element listens on, the
\* indeterminate property, and aria-checked = 'mixed', equal the presence of
\* the 'indeterminate' attribute recorded when the element was connected.
C12_ResetRestoresIndeterminate ==
    [][HandledReset =>
        /\ native'.indeterminate = fields.defaultIndeterminate
        /\ (attr'["aria-checked"] = "mixed") = fields.defaultIndeterminate]_vars

\* connectedCallback has run at least once: it sets the role attribute, which
\* no handler removes.
EverConnected == hasAttribute(This, "role")

\* C13: once the element has been connected, aria-checked is 'mixed' exactly
\* when the indeterminate property is true and otherwise 'true' or 'false' as
\* the element is checked or not, aria-disabled = 'true' is present exactly
\* when the element is disabled, and aria-required = 'true' exactly when the
\* 'required' attribute is present.
C13_AriaMirrorsState ==
    EverConnected =>
        /\ getAttribute(This, "aria-checked") =
              IF get_indeterminate(This) THEN "mixed"
              ELSE IF get_checked(This) THEN "true" ELSE "false"
        /\ getAttribute(This, "aria-disabled") =
              IF get_disabled(This) THEN "true" ELSE Null
        /\ get_disabled(This) = hasAttribute(This, "disabled")
        /\ getAttribute(This, "aria-required") =
              IF hasAttribute(This, "required") THEN "true" ELSE Null

C13_Witness ==
    /\ EverConnected
    /\ get_indeterminate(This)
    /\ getAttribute(This, "aria-checked") = "mixed"
    /\ getAttribute(This, "aria-disabled") = "true"
    /\ getAttribute(This, "aria-required") = "true"
    /\ lastOp = "assign"

\* C14: in fallback mode, whenever the 'disabled' attribute is present the
\* element's hidden input carries neither a name nor a value.
C14_DisabledSubmitsNothing ==
    (~internals.present /\ hasAttribute(This, "disabled") /\ hiddenInput.exists) =>
        /\ hiddenInput.name = Null
        /\ hiddenInput.value = Null

\* C15: a 'reset' event on a form that is not the form the element is
\* connected in changes neither the attributes, nor the checked or
\* indeterminate state, nor the form value, nor the hidden input.
C15_ResetOfFormerFormIgnored ==
    [][\A f \in Forms :
          (ResetOn(f) /\ ~(dom.isConnected /\ dom.form = f)) =>
              /\ attr' = attr
              /\ native' = native
              /\ internals' = internals
              /\ hiddenInput' = hiddenInput]_vars

\* C16: once the element has been connected, no operation changes the
\* checked and indeterminate values that a form reset restores.
C16_DefaultsFixedAtFirstConnect ==
    [][EverConnected =>
          /\ fields'.defaultChecked = fields.defaultChecked
          /\ fields'.defaultIndeterminate = fields.defaultIndeterminate]_vars

\* What two toggle() calls are to restore: the checked property, the
\* 'checked' attribute, the form value, the hidden input and the result of
\* checkValidity().
ToggleObservables(s) ==
    <<get_checked(s), getAttribute(s, "checked"), s.internals.formValue,
      s.hiddenInput, s.dom.formChildren, checkValidityResult(checkValidity(s))>>

\* C17: toggle() inverts the checked property whether or not the element is
\* disabled and leaves the indeterminate property false, and two toggle()
\* calls in a row restore the checked property, the 'checked' attribute, the
\* form value, the hidden input and the result of checkValidity().
C17_ToggleInvolution ==
    /\ [](ToggleObservables(toggle(toggle(This))) = ToggleObservables(This))
    /\ [][lastOp' = "toggle" =>
            /\ native'.checked = ~native.checked
            /\ ~native'.indeterminate]_vars

\* toggle() has just checked a disabled element that was indeterminate
\* before (its attribute is still there).
C17_Witness ==
    /\ lastOp = "toggle"
    /\ hasAttribute(This, "disabled")
    /\ get_checked(This)
    /\ hasAttribute(This, "indeterminate")
    /\ ~get_indeterminate(This)

====
